---- MODULE Spec2Model ----
(***************************************************************************)
(* Model of app.py: the SVG frame extractor get_path and the paced         *)
(* server-sent-event generator respond_to_client, which runs once per      *)
(* client connection over the module-level variables frame, begin and      *)
(* calc_time.                                                              *)
(*                                                                         *)
(* Time is counted in clock ticks; spf is the frame period in ticks.       *)
(* The process is gevent-patched: a generator runs without preemption      *)
(* until it hands an event to the transport (yield) or sleeps; `running`   *)
(* is the greenlet that holds the interpreter.                             *)
(***************************************************************************)
EXTENDS Integers, Sequences, FiniteSets, TLC

\* ---------------------------------------------------------------- bounds
\* Number of client connections made during one run of the process.
NumSessions == 2
\* The module constant last_frame, scaled down from 5258.
last_frame == 3
\* Last clock reading explored.
MaxNow == 4
\* Longest file, in tokens, fed to get_path on its own.
MaxFileLen == 4

\* Seconds per frame (spf = 1/fps): one clock tick is one frame period.
spf == 1

Sessions == 1..NumSessions

\* ------------------------------------------------------------ file model
\* A file is a sequence of tokens: "M" stands for the text d="M, "z" for
\* the text z", "x" for any other text and "n" for a newline character.
Tokens == {"M", "z", "x", "n"}
Missing == <<"missing">>

RECURSIVE SeqsUpTo(_, _)
SeqsUpTo(S, n) ==
    IF n = 0 THEN {<<>>}
    ELSE LET shorter == SeqsUpTo(S, n - 1)
         IN  shorter \cup {Append(q, t) : q \in {r \in shorter : Len(r) = n - 1}, t \in S}

\* Iterating a text file yields its lines, each ending with its newline
\* (the last line may lack one).
RECURSIVE SplitLines(_, _, _)
SplitLines(text, cur, acc) ==
    IF text = <<>> THEN (IF cur = <<>> THEN acc ELSE Append(acc, cur))
    ELSE IF Head(text) = "n"
         THEN SplitLines(Tail(text), <<>>, Append(acc, Append(cur, "n")))
         ELSE SplitLines(Tail(text), Append(cur, Head(text)), acc)

Lines(text) == SplitLines(text, <<>>, <<>>)

Contains(line, tok) == \E k \in 1..Len(line) : line[k] = tok

\* The scan loop of get_path over the lines from position k on; i, start
\* and end are the loop's variables (Python offsets, 0-based).
RECURSIVE Scan(_, _, _, _, _)
Scan(lines, k, i, start, end) ==
    IF k > Len(lines) THEN [start |-> start, end |-> end]
    ELSE LET start1 == IF Contains(lines[k], "M") THEN i ELSE start
             i1     == i + 1
             end1   == IF Contains(lines[k], "z") THEN i1 ELSE end
         IN  Scan(lines, k + 1, i1, start1, end1)

RECURSIVE Join(_)
Join(ls) == IF ls = <<>> THEN <<>> ELSE Head(ls) \o Join(Tail(ls))

\* str.replace('\n', ' ')
ReplaceNewlines(s) == [k \in 1..Len(s) |-> IF s[k] = "n" THEN " " ELSE s[k]]

\* p_lines[start:end] with Python's slice rules for 0 <= start, end.
Slice(ls, start, end) ==
    LET hi == IF end > Len(ls) THEN Len(ls) ELSE end
    IN  IF start >= hi THEN <<>> ELSE SubSeq(ls, start + 1, hi)

\* Mutant of FoundMarkers: one marker is enough.
FoundMarkersEither(start, end) == start # 0 \/ end # 0

\* The test `start != 0 and end != 0`.
FoundMarkers(start, end) == start # 0 /\ end # 0

\* get_path on a readable file: the string returned and the names for
\* which "Path data not found" was printed.
get_path(file_num, text) ==
    LET p_lines == Lines(text)
        se      == Scan(p_lines, 1, 0, 0, 0)
    IN  IF FoundMarkers(se.start, se.end)
        THEN [ret  |-> ReplaceNewlines(Join(Slice(p_lines, se.start, se.end))),
              diag |-> <<>>]
        ELSE [ret |-> <<>>, diag |-> <<file_num>>]

\* ------------------------------------------------------------------ state
VARIABLES
    now,        \* the wall clock read by time.time(), in ticks
    frame,      \* module variable frame
    begin,      \* module variable begin
    calc_time,  \* module variable calc_time
    svgs,       \* the svgs directory: frame number -> file text, or Missing
    pc,         \* per connection: position of its respond_to_client generator
    running,    \* the connections whose greenlet holds the interpreter: none or one
    frametime,  \* per connection: the local frametime
    data,       \* per connection: the local _data and the frame it was read for
    wake,       \* per connection: clock reading at which its time.sleep ends
    log,        \* per connection: its get_path calls, pushes, pacing updates, sleeps
    stdout,     \* frame numbers for which "Path data not found" was printed
    probe       \* a direct call of get_path: its argument and outcome

vars == <<now, frame, begin, calc_time, svgs, pc, running, frametime, data,
          wake, log, stdout, probe>>

globals == <<frame, begin, calc_time>>

\* Files the svgs directory is populated from: a frame with its path on the
\* second line, a file without markers, and an absent file.  Every
\* directory explored holds frames throughout, but for at most one file.
GoodSvg == <<"x", "n", "M", "z", "n">>
BareSvg == <<"x", "n">>
SvgChoices == {GoodSvg, BareSvg, Missing}
Directories ==
    {d \in [1..last_frame -> SvgChoices] :
        \A j, k \in 1..last_frame : d[j] # GoodSvg /\ d[k] # GoodSvg => j = k}

NoData == [idx |-> 0, path |-> <<>>]
ProbeIdle == [text |-> <<>>, state |-> "off", num |-> 0, ret |-> <<>>, diag |-> <<>>]

Entry(op, idx, val) == [op |-> op, idx |-> idx, val |-> val]

\* State after the module body has run (lines 6-19) and before any request.
Init ==
    /\ now = 0
    /\ frame = 1
    /\ begin = 0
    /\ calc_time = 0
    /\ svgs \in Directories
    /\ pc = [s \in Sessions |-> "idle"]
    /\ running = {}
    /\ frametime = [s \in Sessions |-> 0]
    /\ data = [s \in Sessions |-> NoData]
    /\ wake = [s \in Sessions |-> 0]
    /\ log = [s \in Sessions |-> <<>>]
    /\ stdout = <<>>
    /\ probe = ProbeIdle

\* ---------------------------------------------------------------- actions
\* The clock advances at any time.
Tick ==
    /\ now < MaxNow
    /\ now' = now + 1
    /\ UNCHANGED <<frame, begin, calc_time, svgs, pc, running, frametime, data,
                   wake, log, stdout, probe>>

\* Mutant of LoopCond: the loop also runs for frame = last_frame.
LoopCondInclusive == frame <= last_frame

\* while frame < last_frame
LoopCond == frame < last_frame

\* Mutant of ReadRaises: an unreadable file read as an empty one.
ReadRaisesNever(text) == FALSE

\* open() raises for an absent file.
ReadRaises(text) == text = Missing

\* What get_path returns and prints for the file of a frame.
PathOf(file_num, text) ==
    IF text = Missing THEN [ret |-> <<>>, diag |-> <<>>] ELSE get_path(file_num, text)

\* Lines 56-59, run by connection s from the loop test up to the yield:
\* when the test fails the generator returns and the response ends;
\* otherwise get_path(frame) is called and the event is handed to the
\* transport, which suspends the generator.  An exception from open()
\* finishes the generator.  `sofar` is the log of s before this step.
LoopHead(s, sofar) ==
    /\ running' = {}
    /\ IF ~LoopCond
       THEN /\ pc' = [pc EXCEPT ![s] = "closed"]
            /\ log' = [log EXCEPT ![s] = sofar]
            /\ UNCHANGED <<data, stdout>>
       ELSE /\ log' = [log EXCEPT ![s] = Append(sofar, Entry("read", frame, <<>>))]
            /\ IF ReadRaises(svgs[frame])
               THEN /\ pc' = [pc EXCEPT ![s] = "failed"]
                    /\ UNCHANGED <<data, stdout>>
               ELSE LET r == PathOf(frame, svgs[frame])
                    IN  /\ data' = [data EXCEPT ![s] = [idx |-> frame, path |-> r.ret]]
                        /\ stdout' = stdout \o r.diag
                        /\ pc' = [pc EXCEPT ![s] = "pushing"]

\* A client requests /init (lines 50-74): listen() returns the generator,
\* which the server starts iterating.  No module variable is assigned.
\* Connections are numbered in the order in which they arrive.
Connect(s) ==
    /\ pc[s] = "idle"
    /\ \A t \in Sessions : t < s => pc[t] # "idle"
    /\ running = {}
    /\ LoopHead(s, log[s])
    /\ UNCHANGED <<now, frame, begin, calc_time, svgs, frametime, wake, probe>>

\* Mutant of NextFrame: the counter skips a frame.
NextFrameSkip(f) == f + 2

\* frame += 1
NextFrame(f) == f + 1

\* The transport wrote the event to the client and asks the generator for
\* the next one; it resumes after the yield with lines 60-62:
\* frame += 1; frametime = time.time() - begin
PushOk(s) ==
    /\ pc[s] = "pushing"
    /\ running = {}
    /\ log' = [log EXCEPT ![s] = Append(@, Entry("emit", data[s].idx, data[s].path))]
    /\ frame' = NextFrame(frame)
    /\ frametime' = [frametime EXCEPT ![s] = now - begin]
    /\ pc' = [pc EXCEPT ![s] = "pace"]
    /\ running' = {s}
    /\ UNCHANGED <<now, begin, calc_time, svgs, data, wake, stdout, probe>>

\* Mutant of AfterFailedPush: the generator goes on as after a delivery.
AfterFailedPushResume == "pace"

\* The write failed: the server closes the generator, GeneratorExit is
\* raised at the yield and nothing after it runs.
AfterFailedPush == "aborted"

PushFail(s) ==
    /\ pc[s] = "pushing"
    /\ running = {}
    /\ log' = [log EXCEPT ![s] = Append(@, Entry("pushfail", data[s].idx, <<>>))]
    /\ pc' = [pc EXCEPT ![s] = AfterFailedPush]
    /\ running' = IF AfterFailedPush = "aborted" THEN {} ELSE {s}
    /\ UNCHANGED <<now, frame, begin, calc_time, svgs, frametime, data, wake,
                   stdout, probe>>

\* Mutant of SleepSecs: sleep only for what is left of the frame period.
SleepSecsRemainder(elapsed) == IF elapsed < spf THEN spf - elapsed ELSE 0

\* calc_time += frametime - spf
Debt(debt, elapsed) == debt + elapsed - spf

\* if calc_time < spf
ShouldSleep(debt) == debt < spf

\* time.sleep(spf)
SleepSecs(elapsed) == spf

\* Mutant of Slept: the sleep is made twice.
SleptTwice(sofar, secs) ==
    Append(Append(sofar, Entry("sleep", secs, <<>>)), Entry("sleep", secs, <<>>))

\* The log of a connection after its call time.sleep(secs).
Slept(sofar, secs) == Append(sofar, Entry("sleep", secs, <<>>))

\* Lines 64-71: begin = time.time(); calc_time += frametime - spf; then
\* time.sleep(spf) when calc_time < spf, else straight on with the loop.
Pace(s) ==
    /\ pc[s] = "pace"
    /\ running = {s}
    /\ begin' = now
    /\ calc_time' = Debt(calc_time, frametime[s])
    /\ LET paced == Append(log[s], Entry("pace", frametime[s], calc_time'))
       IN  IF ShouldSleep(calc_time')
           THEN /\ pc' = [pc EXCEPT ![s] = "sleep"]
                /\ wake' = [wake EXCEPT ![s] = now + SleepSecs(frametime[s])]
                /\ log' = [log EXCEPT ![s] = Slept(paced, SleepSecs(frametime[s]))]
                /\ running' = {}
                /\ UNCHANGED <<data, stdout>>
           ELSE /\ LoopHead(s, paced)
                /\ UNCHANGED wake
    /\ UNCHANGED <<now, frame, svgs, frametime, probe>>

\* Mutant of SleepDone: the sleep never ends.
SleepDoneNever(s) == FALSE

\* The time asked of time.sleep has passed.
SleepDone(s) == now >= wake[s]

\* time.sleep returns once spf has passed and no other greenlet runs (that
\* is CanWake); the loop goes on.
CanWake(s) ==
    /\ pc[s] = "sleep"
    /\ running = {}
    /\ SleepDone(s)

Wake(s) ==
    /\ CanWake(s)
    /\ LoopHead(s, log[s])
    /\ UNCHANGED <<now, frame, begin, calc_time, svgs, frametime, wake, probe>>

Next ==
    \/ Tick
    \/ \E s \in Sessions : Connect(s)
    \/ \E s \in Sessions : PushOk(s)
    \/ \E s \in Sessions : PushFail(s)
    \/ \E s \in Sessions : Pace(s)
    \/ \E s \in Sessions : Wake(s)

Spec == Init /\ [][Next]_vars

\* ------------------------------------------------------ runs that go on
\* Past MaxNow the clock still advances for as long as a connection is
\* waiting for its sleep to end.
TickForSleeper ==
    /\ now >= MaxNow
    /\ \E s \in Sessions : pc[s] = "sleep" /\ now < wake[s]
    /\ now' = now + 1
    /\ UNCHANGED <<frame, begin, calc_time, svgs, pc, running, frametime, data,
                   wake, log, stdout, probe>>

LiveNext == Next \/ TickForSleeper

\* In LiveSpec the process does not halt: while the clock can advance, the transport
\* has an event to answer or a greenlet can run, one of them does.  Every
\* step moves the clock or a connection forward, so no step can starve
\* another for ever.
Fairness == WF_vars(LiveNext)

RunSpec == Init /\ [][LiveNext]_vars

LiveSpec == RunSpec /\ Fairness

\* ------------------------------------------ runs with prompt frame handling
\* The clock advances only while no connection is between its get_path
\* call and the end of its pacing update, and a sleep ends on time: reading
\* a file and delivering an event take less than one tick, i.e. less than
\* spf.
TickWaiting ==
    /\ \A s \in Sessions : pc[s] \notin {"pushing", "pace"}
    /\ \A s \in Sessions : pc[s] = "sleep" => now < wake[s]
    /\ Tick

PromptNext ==
    \/ TickWaiting
    \/ \E s \in Sessions : Connect(s)
    \/ \E s \in Sessions : PushOk(s)
    \/ \E s \in Sessions : PushFail(s)
    \/ \E s \in Sessions : Pace(s)
    \/ \E s \in Sessions : Wake(s)

PromptSpec == Init /\ [][PromptNext]_vars

\* ------------------------------------------------- get_path called directly
AllFiles == SeqsUpTo(Tokens, MaxFileLen)

ProbeInit ==
    /\ now = 0
    /\ frame = 1
    /\ begin = 0
    /\ calc_time = 0
    /\ svgs = [k \in 1..last_frame |-> Missing]
    /\ pc = [s \in Sessions |-> "idle"]
    /\ running = {}
    /\ frametime = [s \in Sessions |-> 0]
    /\ data = [s \in Sessions |-> NoData]
    /\ wake = [s \in Sessions |-> 0]
    /\ log = [s \in Sessions |-> <<>>]
    /\ stdout = <<>>
    /\ \E text \in AllFiles \cup {Missing}, k \in 1..last_frame :
          probe = [text |-> text, state |-> "ready", num |-> k,
                   ret |-> <<>>, diag |-> <<>>]

\* get_path(num) on a readable file returns.
ProbeReturn ==
    /\ probe.state = "ready"
    /\ ~ReadRaises(probe.text)
    /\ LET r == get_path(probe.num, probe.text)
       IN  probe' = [probe EXCEPT !.state = "returned", !.ret = r.ret, !.diag = r.diag]
    /\ UNCHANGED <<now, frame, begin, calc_time, svgs, pc, running, frametime,
                   data, wake, log, stdout>>

\* get_path(num) on an absent file raises out of open().
ProbeRaise ==
    /\ probe.state = "ready"
    /\ ReadRaises(probe.text)
    /\ probe' = [probe EXCEPT !.state = "raised"]
    /\ UNCHANGED <<now, frame, begin, calc_time, svgs, pc, running, frametime,
                   data, wake, log, stdout>>

ProbeNext == ProbeReturn \/ ProbeRaise

PathSpec == ProbeInit /\ [][ProbeNext]_vars

\* ------------------------------------------------------------ properties
Ops(s, op) == SelectSeq(log[s], LAMBDA e : e.op = op)
Idx(entries) == [k \in 1..Len(entries) |-> entries[k].idx]
Val(entries) == [k \in 1..Len(entries) |-> entries[k].val]
Streaming == {"pushing", "pace", "sleep"}
AllReadable == \A k \in 1..last_frame : svgs[k] # Missing

\* C1: a connection whose pushes all succeeded and whose files were all
\* readable has, once its response has ended, delivered exactly the events
\* of frames 1, 2, ..., last_frame - 1, in that order.
C1_ClosedAfterAllFrames ==
    \A s \in Sessions :
        (pc[s] = "closed" /\ AllReadable /\ Ops(s, "pushfail") = <<>>)
            => Idx(Ops(s, "emit")) = [k \in 1..(last_frame - 1) |-> k]

\* C2: no step of one connection changes frame, begin or calc_time while
\* another connection is streaming.
C2_NoSharedState ==
    [][\A s, t \in Sessions :
          (s # t /\ pc[s] \in Streaming /\ pc'[t] # pc[t]) => UNCHANGED globals]_vars

\* C3: when a client connects, its stream starts from frame = 1, with
\* begin equal to the time of connection and calc_time = 0.
C3_FreshStateAtConnect ==
    [][\A s \in Sessions :
          (pc[s] = "idle" /\ pc'[s] # "idle")
              => (frame = 1 /\ begin = now /\ calc_time = 0)]_vars

\* C4: once a push of connection s has failed, s is aborted and the failed
\* push is the last thing it did: no later get_path call, event or sleep;
\* and none of its get_path calls was for a frame after the one that failed.
C4_FailedPushAborts ==
    \A s \in Sessions : \A j \in 1..Len(log[s]) :
        log[s][j].op = "pushfail"
            => /\ pc[s] = "aborted"
               /\ s \notin running
               /\ j = Len(log[s])
               /\ \A i \in 1..j : log[s][i].op = "read" => log[s][i].idx <= log[s][j].idx

\* C4 witness: a connection was aborted by a failed push after it had
\* delivered an event and slept, and the clock has moved on since.
C4_Witness ==
    \E s \in Sessions :
        /\ Ops(s, "pushfail") # <<>>
        /\ Ops(s, "emit") # <<>>
        /\ Ops(s, "sleep") # <<>>
        /\ now > wake[s] + 1

\* C5: resuming after a delivered event sets frametime = now - begin; the
\* pacing step then sets begin = now and adds frametime - spf to
\* calc_time, and sleeps for exactly spf when the new calc_time < spf and
\* does not sleep at all otherwise.
C5_PacingStep ==
    [][\A s \in Sessions :
          /\ (pc[s] = "pushing" /\ pc'[s] = "pace") => frametime'[s] = now - begin
          /\ (pc[s] = "pace" /\ pc'[s] # "pace")
                => /\ begin' = now
                   /\ calc_time' = calc_time + frametime[s] - spf
                   /\ (calc_time' < spf)
                         => /\ pc'[s] = "sleep"
                            /\ wake'[s] = now + spf
                            /\ Val(Ops(s, "sleep"))' = Val(Ops(s, "sleep")) \o <<<<>>>>
                            /\ Idx(Ops(s, "sleep"))' = Append(Idx(Ops(s, "sleep")), spf)
                   /\ (calc_time' >= spf)
                         => /\ pc'[s] # "sleep"
                            /\ Ops(s, "sleep")' = Ops(s, "sleep")]_vars

\* C5 witness: one connection has made a pacing update that slept and one
\* that did not.
C5_Witness ==
    \E s \in Sessions :
        \E i, j \in 1..Len(log[s]) :
            /\ log[s][i].op = "pace" /\ log[s][i].val < spf
            /\ i < Len(log[s]) /\ log[s][i + 1].op = "sleep"
            /\ log[s][j].op = "pace" /\ log[s][j].val >= spf
            /\ (j < Len(log[s]) => log[s][j + 1].op # "sleep")

\* C6: for a connection all of whose pacing updates measured more than spf
\* of elapsed time, calc_time as left by its successive updates strictly
\* grows.
C6_DebtGrows ==
    \A s \in Sessions :
        LET p == Ops(s, "pace")
        IN  (\A k \in 1..Len(p) : p[k].idx > spf)
                => \A k \in 1..(Len(p) - 1) : p[k].val < p[k + 1].val

StartLines(text) == {k \in 1..Len(Lines(text)) : Contains(Lines(text)[k], "M")}
EndLines(text) == {k \in 1..Len(Lines(text)) : Contains(Lines(text)[k], "z")}
MaxOf(S) == CHOOSE m \in S : \A k \in S : k <= m
WellFormed(text) ==
    /\ StartLines(text) # {}
    /\ EndLines(text) # {}
    /\ MaxOf(EndLines(text)) >= MaxOf(StartLines(text))
LastToLast(text) ==
    ReplaceNewlines(
        Join(SubSeq(Lines(text), MaxOf(StartLines(text)), MaxOf(EndLines(text)))))

\* C7: for a file with a start-marker line whose last end-marker line is at
\* or after its last start-marker line, get_path returns the non-empty
\* text of the lines from the last start-marker line through the last
\* end-marker line, each newline replaced by a space.
C7_WellFormedPath ==
    (probe.state = "returned" /\ WellFormed(probe.text))
        => (probe.ret # <<>> /\ probe.ret = LastToLast(probe.text))

\* C8: for a readable file without a start-marker line or without an
\* end-marker line, get_path returns the empty string, prints exactly one
\* diagnostic, which names the file, and does not raise.
C8_NoMarkerDiagnostic ==
    (/\ probe.state \in {"returned", "raised"}
     /\ probe.text # Missing
     /\ (StartLines(probe.text) = {} \/ EndLines(probe.text) = {}))
        => (probe.state = "returned" /\ probe.ret = <<>> /\ probe.diag = <<probe.num>>)

\* C8 witness: get_path has returned for a file that has a start marker
\* after its first line and no end marker.
C8_Witness ==
    /\ probe.state = "returned"
    /\ \E k \in StartLines(probe.text) : k > 1
    /\ EndLines(probe.text) = {}

\* C9: a connection resumed after delivering the event of frame k with an
\* empty path has incremented frame to k + 1.
C9_EmptyPathAdvances ==
    \A s \in Sessions :
        (pc[s] = "pace" /\ data[s].path = <<>>) => frame = data[s].idx + 1

\* C10: a get_path call of connection s for a frame whose file is absent
\* is the last thing s does: its generator is finished, and it delivers no
\* event (for that frame or a later one), calls get_path no more and does
\* not sleep.
C10_MissingFileEnds ==
    \A s \in Sessions : \A j \in 1..Len(log[s]) :
        (log[s][j].op = "read" /\ svgs[log[s][j].idx] = Missing)
            => (pc[s] = "failed" /\ s \notin running /\ j = Len(log[s]))

\* C10 witness: a connection met an absent file after delivering an
\* earlier frame, and the clock has moved on since.
C10_Witness ==
    \E s \in Sessions :
        /\ pc[s] = "failed"
        /\ Ops(s, "emit") # <<>>
        /\ now > wake[s] + 1

\* C11: get_path is only ever called, by any connection and under any
\* interleaving, for a frame number in 1..last_frame - 1; a connection
\* whose stream has ended has not read the file of last_frame.
C11_ReadsBelowLastFrame ==
    \A s \in Sessions : \A j \in 1..Len(log[s]) :
        log[s][j].op = "read" => (1 <= log[s][j].idx /\ log[s][j].idx <= last_frame - 1)

\* C11 witness: a connection has ended its stream normally after reading
\* the file of frame last_frame - 1, with two connections having streamed.
C11_Witness ==
    \E s \in Sessions :
        /\ pc[s] = "closed"
        /\ \E j \in 1..Len(log[s]) : log[s][j].op = "read" /\ log[s][j].idx = last_frame - 1
        /\ \A t \in Sessions : Ops(t, "emit") # <<>>

\* C12: frame changes only by +1, and only in the step in which a
\* connection resumes after a delivered event.  A failed push leaves
\* frame, begin and calc_time unchanged; so does a get_path call that
\* raises, whose step changes them at most by the pacing update that
\* closed the cycle before it.
C12_FrameEffect ==
    [][/\ frame' # frame
            => /\ frame' = frame + 1
               /\ \E s \in Sessions :
                     /\ pc[s] = "pushing" /\ pc'[s] = "pace"
                     /\ log'[s] = Append(log[s], Entry("emit", data[s].idx, data[s].path))
       /\ \A s \in Sessions :
             /\ (pc[s] = "pushing" /\ pc'[s] = "aborted") => UNCHANGED globals
             /\ (pc[s] # "failed" /\ pc'[s] = "failed")
                   => /\ frame' = frame
                      /\ pc[s] # "pace" => UNCHANGED globals
                      /\ pc[s] = "pace"
                            => /\ begin' = now
                               /\ calc_time' = calc_time + frametime[s] - spf]_vars

\* C12 witness: frame has advanced, one connection was aborted by a failed
\* push and another was ended by an absent file.
C12_Witness ==
    /\ frame > 1
    /\ \E s \in Sessions : pc[s] = "aborted"
    /\ \E s \in Sessions : pc[s] = "failed"

\* C13: in runs in which every frame is read and delivered in less than
\* spf, whatever the time between the start of the process and the first
\* connection, calc_time stays below 2 * spf.
C13_DebtBelowTwoSpf == calc_time < 2 * spf

\* C14: in every reachable state 1 <= frame <= last_frame.
C14_FrameInRange == 1 <= frame /\ frame <= last_frame

Ended == {"closed", "aborted", "failed"}

\* A streaming connection is never stuck: its next step can be taken (for
\* a sleeper: time.sleep can return, after which lines 56-59 always run), or
\* it waits for the greenlet that holds the interpreter (which is at its
\* pacing step, and so can take it), or for a sleep that has not run out
\* while the clock can still advance.
CanGoOn(s) ==
    /\ pc[s] = "pushing" => (ENABLED PushOk(s) \/ running # {})
    /\ pc[s] = "pace" => ENABLED Pace(s)
    /\ pc[s] = "sleep"
          => \/ running # {}
             \/ now < wake[s] /\ (ENABLED Tick \/ ENABLED TickForSleeper)
             \/ CanWake(s)

C15_LeadsToEnded ==
    \A s \in Sessions : (pc[s] \in Streaming) ~> (pc[s] \in Ended)

C16_CycleOrder ==
    \A s \in Sessions :
        /\ \A j \in 1..Len(log[s]) :
              LET op   == log[s][j].op
                  prev == IF j = 1 THEN "none" ELSE log[s][j - 1].op
              IN  /\ op = "read" => prev \in {"none", "pace", "sleep"}
                  /\ op \in {"emit", "pushfail"}
                        => (prev = "read" /\ log[s][j - 1].idx = log[s][j].idx)
                  /\ op = "pace" => prev = "emit"
                  /\ op = "sleep" => prev = "pace"
        /\ pc[s] = "pace"
              => /\ log[s] # <<>>
                 /\ log[s][Len(log[s])].op = "emit"
                 /\ frame > log[s][Len(log[s])].idx
        /\ pc[s] = "sleep" => (log[s] # <<>> /\ log[s][Len(log[s])].op = "sleep")
        /\ pc[s] = "pushing" => (log[s] # <<>> /\ log[s][Len(log[s])].op = "read")

\* C16 witness: a connection has delivered two events with a sleep between
\* them and has made its second pacing update.
C16_Witness ==
    \E s \in Sessions :
        /\ Len(Ops(s, "emit")) >= 2
        /\ Len(Ops(s, "pace")) >= 2
        /\ \E j \in 2..Len(log[s]) : log[s][j].op = "read" /\ log[s][j - 1].op = "sleep"

\* C17: whenever get_path returns, it has printed "Path data not found"
\* if and only if the string it returns is empty.
C17_DiagnosticIffEmpty ==
    probe.state = "returned" => (probe.diag # <<>> <=> probe.ret = <<>>)

====
